---- MODULE Spec2Model ----
(***************************************************************************)
(* IANUACalDav: a scraper of course-calendar pages and a Flask server      *)
(* publishing the scraped events as iCal feeds.                            *)
(*                                                                         *)
(* Text is modelled as sequences of one-character strings, so that the     *)
(* string operations of the code (regular expressions, strip, replace,     *)
(* lower, quote, startswith) are computed character by character.          *)
(***************************************************************************)
EXTENDS Integers, Sequences, FiniteSets, TLC

VARIABLES
    server,               \* "none" until a CalDavServer is constructed, then "up"
    events,               \* CalDavServer.events
    subscription_events,  \* CalDavServer.subscription_events: dict in insertion order
    upd,                  \* position of the thread running update_events
    request,              \* the request most recently handled
    response,             \* the response given to it
    mainpc,               \* where main() is: "start", "serving" or the exception that ended it
    main_out,             \* what main() printed about its initial scrape
    job_scrape,           \* what scrape_events gave in the last update_calendar
    job_out,              \* what the last update_calendar printed
    web,                  \* the web site at the time of a scrape
    called,               \* the function called last, with its arguments
    returned              \* what that call returned or raised

serverVars == <<server, events, subscription_events, upd>>
clientVars == <<request, response>>
mainVars == <<mainpc, main_out, job_scrape, job_out>>
scraperVars == <<web, called, returned>>

vars == <<serverVars, clientVars, mainVars, scraperVars>>

---------------------------------------------------------------------------
(* Bounds *)

\* Longest event list handed to the server.
MaxEvents == 2


\* Longest label handed to _create_slug, in pieces of LabelPieces.
MaxLabel == 4
---------------------------------------------------------------------------
(* Characters and strings *)

\* The characters of the model with their code points.
CharTable ==
    { <<"\t", 9>>, <<"\n", 10>>, <<" ", 32>>, <<"!", 33>>, <<"%", 37>>, <<"(", 40>>,
      <<")", 41>>, <<"-", 45>>, <<".", 46>>, <<"/", 47>>, <<"0", 48>>, <<"1", 49>>, <<"2",
      50>>, <<"3", 51>>, <<"4", 52>>, <<"5", 53>>, <<"6", 54>>, <<"7", 55>>, <<"8", 56>>,
      <<"9", 57>>, <<":", 58>>, <<"A", 65>>, <<"B", 66>>, <<"C", 67>>, <<"D", 68>>, <<"E",
      69>>, <<"F", 70>>, <<"G", 71>>, <<"H", 72>>, <<"I", 73>>, <<"J", 74>>, <<"K", 75>>,
      <<"L", 76>>, <<"M", 77>>, <<"N", 78>>, <<"O", 79>>, <<"P", 80>>, <<"Q", 81>>, <<"R",
      82>>, <<"S", 83>>, <<"T", 84>>, <<"U", 85>>, <<"V", 86>>, <<"W", 87>>, <<"X", 88>>,
      <<"Y", 89>>, <<"Z", 90>>, <<"_", 95>>, <<"a", 97>>, <<"b", 98>>, <<"c", 99>>, <<"d",
      100>>, <<"e", 101>>, <<"f", 102>>, <<"g", 103>>, <<"h", 104>>, <<"i", 105>>, <<"j",
      106>>, <<"k", 107>>, <<"l", 108>>, <<"m", 109>>, <<"n", 110>>, <<"o", 111>>, <<"p",
      112>>, <<"q", 113>>, <<"r", 114>>, <<"s", 115>>, <<"t", 116>>, <<"u", 117>>, <<"v",
      118>>, <<"w", 119>>, <<"x", 120>>, <<"y", 121>>, <<"z", 122>>, <<"~", 126>>, <<"É",
      201>>, <<"é", 233>> }

\* ord(c)
ord(c) == (CHOOSE p \in CharTable : p[1] = c)[2]

Digits == <<"0", "1", "2", "3", "4", "5", "6", "7", "8", "9">>

UpperLetters ==
    <<"A", "B", "C", "D", "E", "F", "G", "H", "I", "J", "K", "L", "M", "N", "O", "P",
    "Q", "R", "S", "T", "U", "V", "W", "X", "Y", "Z">>

LowerLetters ==
    <<"a", "b", "c", "d", "e", "f", "g", "h", "i", "j", "k", "l", "m", "n", "o", "p",
    "q", "r", "s", "t", "u", "v", "w", "x", "y", "z">>

Range(s) == {s[i] : i \in DOMAIN s}

\* The whitespace of str.strip, str.split and \s.
IsSpace(c) == c \in {" ", "\t", "\n"}

IsDigit(c) == c \in Range(Digits)

IsAsciiUpper(c) == c \in Range(UpperLetters)

IsLower(c) == c \in Range(LowerLetters) \cup {"é"}

\* An uppercase cased character of str.isupper.
IsUpper(c) == c \in Range(UpperLetters) \cup {"É"}

IsAlnum(c) == IsDigit(c) \/ IsUpper(c) \/ IsLower(c)

\* \w of the re module on str patterns: alphanumerics and the underscore.
IsWord(c) == IsAlnum(c) \/ c = "_"

IndexIn(s, c) == CHOOSE i \in DOMAIN s : s[i] = c

\* str.lower on one character.
LowerChar(c) ==
    IF IsAsciiUpper(c) THEN LowerLetters[IndexIn(UpperLetters, c)]
    ELSE IF c = "É" THEN "é"
    ELSE c

lower(s) == [i \in DOMAIN s |-> LowerChar(s[i])]

\* str.upper on one character.
UpperChar(c) ==
    IF c \in Range(LowerLetters) THEN UpperLetters[IndexIn(LowerLetters, c)]
    ELSE IF c = "é" THEN "É"
    ELSE c

upper(s) == [i \in DOMAIN s |-> UpperChar(s[i])]

RECURSIVE lstrip(_)
lstrip(s) == IF s # <<>> /\ IsSpace(Head(s)) THEN lstrip(Tail(s)) ELSE s

RECURSIVE rstrip(_)
rstrip(s) ==
    IF s # <<>> /\ IsSpace(s[Len(s)]) THEN rstrip(SubSeq(s, 1, Len(s) - 1)) ELSE s

\* str.strip()
strip(s) == rstrip(lstrip(s))

\* str.replace(old, new) for a one-character old.
replace(s, old, new) == [i \in DOMAIN s |-> IF s[i] = old THEN new ELSE s[i]]

\* str.startswith
startswith(s, prefix) ==
    Len(s) >= Len(prefix) /\ SubSeq(s, 1, Len(prefix)) = prefix

CodeLess(m, n) == m < n

\* Python's ordering of str values: lexicographic by code point.
RECURSIVE StrLess(_, _)
StrLess(a, b) ==
    IF b = <<>> THEN FALSE
    ELSE IF a = <<>> THEN TRUE
    ELSE IF Head(a) # Head(b) THEN CodeLess(ord(Head(a)), ord(Head(b)))
    ELSE StrLess(Tail(a), Tail(b))

\* Index of the first occurrence of sub in s starting at or after position
\* from, 0 when there is none.
RECURSIVE Find(_, _, _)
Find(sub, s, from) ==
    IF from + Len(sub) - 1 > Len(s) THEN 0
    ELSE IF SubSeq(s, from, from + Len(sub) - 1) = sub THEN from
    ELSE Find(sub, s, from + 1)

\* sub in s
Contains(s, sub) == Find(sub, s, 1) > 0

\* s cut at position k, the index of a separator or 0 when there is none.
RECURSIVE split(_, _)
SplitAt(s, sep, k) ==
    IF k = 0 THEN <<s>>
    ELSE <<SubSeq(s, 1, k - 1)>> \o split(SubSeq(s, k + 1, Len(s)), sep)

\* str.split(sep) for a one-character sep: always at least one part.
split(s, sep) == SplitAt(s, sep, Find(<<sep>>, s, 1))

\* Length of the run of non-whitespace characters t starts with.
RECURSIVE WordLen(_)
WordLen(t) == IF t = <<>> \/ IsSpace(Head(t)) THEN 0 ELSE 1 + WordLen(Tail(t))

RECURSIVE words(_)
WordsOf(t, k) ==
    IF t = <<>> THEN <<>>
    ELSE <<SubSeq(t, 1, k)>> \o words(SubSeq(t, k + 1, Len(t)))

\* str.split() without argument: the maximal runs of non-whitespace.
words(s) == WordsOf(lstrip(s), WordLen(lstrip(s)))

\* sep.join(parts)
RECURSIVE join(_, _)
join(sep, parts) ==
    IF parts = <<>> THEN <<>>
    ELSE IF Len(parts) = 1 THEN parts[1]
    ELSE parts[1] \o sep \o join(sep, Tail(parts))

\* The value of a string of decimal digits.
RECURSIVE DigitsValue(_)
DigitsValue(s) ==
    IF s = <<>> THEN 0
    ELSE 10 * DigitsValue(SubSeq(s, 1, Len(s) - 1)) + (IndexIn(Digits, s[Len(s)]) - 1)

AllDigits(s) == \A i \in DOMAIN s : IsDigit(s[i])

\* Optional[str]
None == [is_none |-> TRUE]
Some(v) == [is_none |-> FALSE, value |-> v]

\* Truth value of an Optional[str] in a condition.
Truthy(opt) == ~opt.is_none /\ opt.value # <<>>

\* The outcome of a call: a returned value or a raised exception.
Return(v) == [kind |-> "return", value |-> v]
Raise(e) == [kind |-> "raise", exc |-> e]

\* The exceptions requests raises for a failed fetch (raise_for_status
\* included), all subclasses of requests.RequestException.
RequestExceptions == {"ConnectionError", "Timeout", "HTTPError"}

---------------------------------------------------------------------------
(* pdf_extractor.py: PDFExtractor *)

\* What the download and the opening of a flyer give: the failure of the
\* request, a document pdfplumber cannot open, or the texts of the pages.
FlyerFailed(exc) == [fetch |-> exc, valid |-> FALSE, pages |-> <<>>]
FlyerCorrupt == [fetch |-> "ok", valid |-> FALSE, pages |-> <<>>]
FlyerPages(pages) == [fetch |-> "ok", valid |-> TRUE, pages |-> pages]

\* The loop over pdf.pages: text += page_text + "\n" for each non-empty one.
RECURSIVE PagesText(_)
PagesText(pages) ==
    IF pages = <<>> THEN <<>>
    ELSE (IF Head(pages) # <<>> THEN Head(pages) \o <<"\n">> ELSE <<>>)
         \o PagesText(Tail(pages))

\* The statements of the try blocks up to the text of the document:
\* requests.get, raise_for_status, pdfplumber.open and the page loop.
FlyerText(flyer) ==
    IF flyer.fetch # "ok" THEN Raise(flyer.fetch)
    ELSE IF ~flyer.valid THEN Raise("PDFSyntaxError")
    ELSE Return(PagesText(flyer.pages))

OptionalStr(s) == IF s # <<>> THEN Some(s) ELSE None

DalleOre == <<"D", "a", "l", "l", "e", " ", "o", "r", "e">>
Alle == <<"a", "l", "l", "e">>
Abstract == <<"A", "B", "S", "T", "R", "A", "C", "T">>

\* The lookahead (?=\n\n|\n[A-Z]|\Z) after the first e characters of text.
TimeLookahead(text, e) ==
    \/ e = Len(text)
    \/ e + 2 <= Len(text) /\ text[e + 1] = "\n" /\ text[e + 2] = "\n"
    \/ e + 2 <= Len(text) /\ text[e + 1] = "\n" /\ IsAsciiUpper(text[e + 2])

\* The first position from e on where the lookahead holds.
RECURSIVE FirstLookahead(_, _)
FirstLookahead(text, e) ==
    IF TimeLookahead(text, e) THEN e ELSE FirstLookahead(text, e + 1)

\* a is the index of the first "alle" after "Dalle ore", 0 without one.
AfterAlle(text, a) == IF a = 0 THEN 0 ELSE FirstLookahead(text, a + Len(Alle) - 1)

\* p is the index of the leftmost "Dalle ore", 0 without one.
AfterDalleOre(text, p) ==
    IF p = 0 THEN 0 ELSE AfterAlle(text, Find(Alle, text, p + Len(DalleOre)))

\* End of the match of r"Dalle ore.*?alle.*?(?=\n\n|\n[A-Z]|\Z)" with
\* re.DOTALL, found by re.search: the leftmost "Dalle ore", the first "alle"
\* after it, and the first position from there where the lookahead holds.
\* 0 when the pattern does not match.
TimeMatchEnd(text) == AfterDalleOre(text, Find(DalleOre, text, 1))

\* The loop collecting the location lines: it stops at the first line that
\* is blank or contains ABSTRACT in any case.
RECURSIVE LocationLines(_)
LocationLine(line, rest) ==
    IF line = <<>> \/ Contains(upper(line), Abstract) THEN <<>>
    ELSE <<line>> \o LocationLines(rest)

LocationLines(lines) ==
    IF lines = <<>> THEN <<>> ELSE LocationLine(strip(Head(lines)), Tail(lines))

FirstN(s, n) == SubSeq(s, 1, IF Len(s) < n THEN Len(s) ELSE n)

\* How many location lines are kept (location_lines[:3]).
LocationLinesKept == 3

\* Lines 76-90, e being the end of the match of the time pattern.
LocationAfter(text, e) ==
    IF e = 0 THEN None
    ELSE OptionalStr(join(<<"\n">>,
             FirstN(LocationLines(split(strip(SubSeq(text, e + 1, Len(text))), "\n")),
                    LocationLinesKept)))

LocationFromText(text) == LocationAfter(text, TimeMatchEnd(text))

\* The except clause: every exception of the body gives None.
LocationOf(text) ==
    IF text.kind = "raise" THEN None ELSE LocationFromText(text.value)

extract_location_from_pdf(flyer) == LocationOf(FlyerText(flyer))

extract_pdf_location(flyer) == extract_location_from_pdf(flyer)

\* str.isupper: at least one cased character and no lowercase one.
isupper(s) ==
    /\ \E i \in DOMAIN s : IsUpper(s[i])
    /\ \A i \in DOMAIN s : ~IsLower(s[i])

HasDigit(s) == \E i \in DOMAIN s : IsDigit(s[i])

PoloDidattico ==
    <<"P", "o", "l", "o", " ", "D", "i", "d", "a", "t", "t", "i", "c", "o">>

ViaSpace == <<"V", "i", "a", " ">>

ExcludedWords ==
    { <<"I", "N", "D", "I", "R", "I", "Z", "Z", "O">>,
      <<"A", "N", "N", "O">>,
      <<"C", "L", "3">>,
      <<"L", "M", "C", "U">>,
      <<"I", "S", "B">>,
      <<"D", "I", "F", "A", "R">> }

Titles ==
    { <<"P", "r", "o", "f">>,
      <<"D", "o", "t", "t">>,
      <<"D", "r">>,
      <<"D", "i", "r", "e", "z", "i", "o", "n", "e">>,
      <<"S", "e", "g", "r", "e", "t", "a", "r", "i", "o">> }

\* How many lines after the speaker line are tried as biography
\* (range(i+1, min(i+4, len(lines)))).
BioLines == 3

\* The inner loop over lines[j], j from i+1 up to stop: the biography lines.
RECURSIVE Bio(_, _, _)
BioLine(lines, j, stop, next_line) ==
    IF /\ next_line # <<>>
       /\ ~isupper(next_line)
       /\ ~IsDigit(next_line[1])
       /\ ~Contains(next_line, DalleOre)
       /\ ~Contains(next_line, PoloDidattico)
    THEN <<next_line>> \o Bio(lines, j + 1, stop)
    ELSE <<>>

Bio(lines, j, stop) ==
    IF j >= stop THEN <<>> ELSE BioLine(lines, j, stop, strip(lines[j]))

Min(a, b) == IF a < b THEN a ELSE b

\* The loop of extract_speaker_info over lines[i], lines indexed from 1 here;
\* line is lines[i] stripped and nwords the number of its words.
RECURSIVE SpeakerLines(_, _)
SpeakerLine(lines, i, line, nwords) ==
    IF line = <<>> THEN SpeakerLines(lines, i + 1)
    ELSE IF isupper(line) /\ Len(line) > 10 /\ ~HasDigit(line)
    THEN SpeakerLines(lines, i + 1)
    ELSE IF IsDigit(line[1]) THEN <<>>
    ELSE IF \/ Contains(line, DalleOre)
            \/ Contains(line, PoloDidattico)
            \/ Contains(line, ViaSpace)
    THEN <<>>
    ELSE IF /\ nwords >= 2
            /\ ~\E word \in ExcludedWords : Contains(upper(line), word)
            /\ ~isupper(line)
            /\ \/ \E title \in Titles : Contains(line, title)
               \/ nwords = 2 /\ ~HasDigit(line)
    THEN <<line>> \o Bio(lines, i + 1, Min(i + 1 + BioLines, Len(lines) + 1))
    ELSE SpeakerLines(lines, i + 1)

SpeakerLines(lines, i) ==
    IF i > Len(lines) THEN <<>>
    ELSE SpeakerLine(lines, i, strip(lines[i]), Len(words(lines[i])))

SpeakerFromText(text) ==
    OptionalStr(strip(join(<<"\n">>, SpeakerLines(split(text, "\n"), 1))))

\* The except clause: every exception of the body gives None.
SpeakerOf(text) ==
    IF text.kind = "raise" THEN None ELSE SpeakerFromText(text.value)

extract_speaker_info(flyer) == SpeakerOf(FlyerText(flyer))

extract_pdf_speaker(flyer) == extract_speaker_info(flyer)

---------------------------------------------------------------------------
(* scraper.py: EventScraper *)

SiteOrigin ==
    <<"h", "t", "t", "p", "s", ":", "/", "/", "i", "a", "n", "u", "a", ".", "u", "n", "i", "g", "e", ".", "i", "t">>

Marker ==
    <<"c", "a", "r", "a", "t", "t", "e", "r", "i", "z", "z", "a", "n", "t", "i", "-", "2", "5", "-", "2", "6">>

Http == <<"h", "t", "t", "p">>

\* href if href.startswith('http') else f"https://ianua.unige.it{href}"
Absolute(href) == IF startswith(href, Http) THEN href ELSE SiteOrigin \o href

\* current_date = None
NoDate == <<>>

IsLeap(y) == (y % 4 = 0 /\ y % 100 # 0) \/ y % 400 = 0

DaysInMonth(y, m) ==
    IF m = 2 THEN (IF IsLeap(y) THEN 29 ELSE 28)
    ELSE IF m \in {4, 6, 9, 11} THEN 30 ELSE 31

\* The value of a field of n digits at most (%d, %m, %H, %M: one or two),
\* -1 when the field is something else.
FieldValue(s, n) ==
    IF Len(s) >= 1 /\ Len(s) <= n /\ AllDigits(s) THEN DigitsValue(s) ELSE -1

\* The value of a field of four digits (%Y), -1 when it is something else.
YearValue(s) == IF Len(s) = 4 /\ AllDigits(s) THEN DigitsValue(s) ELSE -1

DateOf(d, m, y) ==
    IF d >= 1 /\ d <= 31 /\ m >= 1 /\ m <= 12 /\ y >= 1 /\ d <= DaysInMonth(y, m)
    THEN <<y, m, d>>
    ELSE NoDate

DateOfParts(parts) ==
    IF Len(parts) # 3 THEN NoDate
    ELSE DateOf(FieldValue(parts[1], 2), FieldValue(parts[2], 2), YearValue(parts[3]))

\* datetime.strptime(s, '%d/%m/%Y').date(): the date <<year, month, day>>,
\* or NoDate where strptime raises ValueError.
ParseDate(s) == DateOfParts(split(s, "/"))

NoTime == <<>>

TimeOf(h, m) == IF h >= 0 /\ h <= 23 /\ m >= 0 /\ m <= 59 THEN <<h, m>> ELSE NoTime

TimeOfParts(parts) ==
    IF Len(parts) # 2 THEN NoTime
    ELSE TimeOf(FieldValue(parts[1], 2), FieldValue(parts[2], 2))

\* datetime.strptime(s, '%H:%M').time(): the time <<hour, minute>>, or NoTime
\* where strptime raises ValueError.
ParseTime(s) == TimeOfParts(split(s, ":"))

RangeOf(start_time, end_time) ==
    IF start_time = NoTime \/ end_time = NoTime THEN <<>>
    ELSE <<start_time, end_time>>

RangeOfParts(parts) ==
    IF Len(parts) # 2 THEN <<>>
    ELSE RangeOf(ParseTime(strip(parts[1])), ParseTime(strip(parts[2])))

\* The try block of the time range (lines 120-127): the pair of times, or
\* <<>> where the unpacking of ora.split('-') or a strptime raises ValueError.
ParseRange(ora) == RangeOfParts(split(ora, "-"))

\* datetime.combine
combine(date, time) == [date |-> date, time |-> time]

\* A td element: its text and the a elements in it, each with its href
\* attribute (None when the attribute is missing).
Cell(text, anchors) == [text |-> text, anchors |-> anchors]

\* cell.get_text(strip=True)
get_text(cell) == strip(cell.text)

Responsabile ==
    <<"R", "e", "s", "p", "o", "n", "s", "a", "b", "i", "l", "e", ":", " ">>

Speaker ==
    <<"S", "p", "e", "a", "k", "e", "r", ":", " ">>

TBD == <<"T", "B", "D">>

\* The cells a row needs (len(cells) < 9).
MinCells == 9

\* The arguments of scrape_calendar and the subscription of the heading
\* being read. flyers maps a flyer URL to what its two downloads give, the
\* one for the location and the one for the speaker.
Context(url, course, subscription, flyers) ==
    [url |-> url, course |-> course, subscription |-> subscription, flyers |-> flyers]

LinkOf(a_tag) == IF Truthy(a_tag) THEN Some(Absolute(a_tag.value)) ELSE None

\* Lines 129-135: the flyer link of the details cell, None when it has no a
\* element or its first one has no non-empty href.
LocandinaLink(dettagli_cell) ==
    IF dettagli_cell.anchors = <<>> THEN None ELSE LinkOf(dettagli_cell.anchors[1])

\* Lines 147-154
DescriptionParts(resp, pdf_speaker) ==
    (IF resp # <<>> THEN <<Responsabile \o resp>> ELSE <<>>)
    \o (IF Truthy(pdf_speaker) THEN <<Speaker \o pdf_speaker.value>> ELSE <<>>)

Description(description_parts) ==
    IF description_parts # <<>> THEN join(<<"\n">>, description_parts) ELSE TBD

\* The event with the url of the flyer only when a location was extracted.
EventOfLocated(modulo, resp, locandina_link, pdf_location, pdf_speaker, current_date, range, ctx) ==
    [course       |-> ctx.course,
     subscription |-> ctx.subscription,
     summary      |-> modulo,
     start_date   |-> combine(current_date, range[1]),
     end_date     |-> combine(current_date, range[2]),
     description  |-> Description(DescriptionParts(resp, pdf_speaker)),
     location     |-> IF Truthy(pdf_location) THEN pdf_location.value ELSE <<>>,
     url          |-> IF Truthy(pdf_location) THEN locandina_link.value ELSE ctx.url]

\* Lines 147-172
EventOf(modulo, resp, locandina_link, pdf_location, pdf_speaker, current_date, range, ctx) ==
    [course       |-> ctx.course,
     subscription |-> ctx.subscription,
     summary      |-> modulo,
     start_date   |-> combine(current_date, range[1]),
     end_date     |-> combine(current_date, range[2]),
     description  |-> Description(DescriptionParts(resp, pdf_speaker)),
     location     |-> IF Truthy(pdf_location) THEN pdf_location.value ELSE <<>>,
     url          |-> IF Truthy(locandina_link) THEN locandina_link.value ELSE ctx.url]

\* Lines 137-145
EventWithLink(modulo, resp, locandina_link, current_date, range, ctx) ==
    EventOf(modulo, resp, locandina_link,
            IF Truthy(locandina_link)
            THEN extract_pdf_location(ctx.flyers[locandina_link.value].location)
            ELSE None,
            IF Truthy(locandina_link)
            THEN extract_pdf_speaker(ctx.flyers[locandina_link.value].speaker)
            ELSE None,
            current_date, range, ctx)

\* Lines 129-173: the event of an accepted row.
BuildEvent(cells, current_date, range, ctx) ==
    EventWithLink(get_text(cells[5]), get_text(cells[7]), LocandinaLink(cells[9]),
                  current_date, range, ctx)

\* What one iteration of the loop over the rows leaves: the value of
\* current_date and the events appended, none or one.
Skipped(current_date) == [current_date |-> current_date, events |-> <<>>]

\* Lines 119-173, range being the parsed time range.
RowRanged(cells, date, range, ctx) ==
    IF range = <<>> THEN Skipped(date)
    ELSE [current_date |-> date, events |-> <<BuildEvent(cells, date, range, ctx)>>]

\* Lines 115-173, date being current_date after the date cell was read.
RowTimed(cells, date, ora, modulo, ctx) ==
    IF date = NoDate \/ ora = <<>> \/ modulo = <<>> THEN Skipped(date)
    ELSE RowRanged(cells, date, ParseRange(ora), ctx)

\* Lines 110-113, parsed being the date of a non-empty date cell.
RowParsed(cells, parsed, current_date, ora, modulo, ctx) ==
    IF parsed = NoDate THEN Skipped(current_date)
    ELSE RowTimed(cells, parsed, ora, modulo, ctx)

\* Lines 108-173
RowDated(cells, data, ora, modulo, current_date, ctx) ==
    IF data # <<>> THEN RowParsed(cells, ParseDate(data), current_date, ora, modulo, ctx)
    ELSE RowTimed(cells, current_date, ora, modulo, ctx)

\* The iteration that forgets the date carried when a row is short.
RowStepForgets(cells, current_date, ctx) ==
    IF Len(cells) < MinCells THEN Skipped(NoDate)
    ELSE RowDated(cells, get_text(cells[1]), get_text(cells[3]), get_text(cells[5]),
                  current_date, ctx)

\* One iteration of the loop over the rows (lines 97-173).
RowStep(cells, current_date, ctx) ==
    IF Len(cells) < MinCells THEN Skipped(current_date)
    ELSE RowDated(cells, get_text(cells[1]), get_text(cells[3]), get_text(cells[5]),
                  current_date, ctx)

\* The loop over the rows of one table, from the value current_date has.
RECURSIVE RowLoop(_, _, _)
RowLoopAfter(step, rows, ctx) ==
    step.events \o RowLoop(rows, step.current_date, ctx)

RowLoop(rows, current_date, ctx) ==
    IF rows = <<>> THEN <<>>
    ELSE RowLoopAfter(RowStep(Head(rows), current_date, ctx), Tail(rows), ctx)

\* A page is the sequence, in document order, of its h2 and table elements.
Heading(text) == [tag |-> "h2", text |-> text]
Table(trs) == [tag |-> "table", trs |-> trs]

\* header.find_next('table'): index of the first table after element i,
\* 0 when there is none.
RECURSIVE find_next_table(_, _)
find_next_table(doc, i) ==
    IF i + 1 > Len(doc) THEN 0
    ELSE IF doc[i + 1].tag = "table" THEN i + 1
    ELSE find_next_table(doc, i + 1)

\* table.find_all('tr')[1:]
DataRows(table) == IF table.trs = <<>> THEN <<>> ELSE Tail(table.trs)

NoEvents == [events |-> <<>>, subscriptions |-> <<>>]

\* Lines 88-173: the events of the table found for a heading, t being its
\* index or 0.
TableEvents(doc, t, ctx) ==
    IF t = 0 THEN <<>> ELSE RowLoop(DataRows(doc[t]), NoDate, ctx)

\* An accepted heading: its events and label before those of the later ones.
Accepted(title, evs, rest) ==
    [events |-> evs \o rest.events,
     subscriptions |-> <<title>> \o rest.subscriptions]

\* The loop over the h2 elements (lines 80-173), from element i of the page.
RECURSIVE HeaderLoop(_, _, _, _, _)
HeaderAt(doc, i, title, url, course, flyers) ==
    IF title = <<>> \/ ~startswith(title, course \o <<" ">>)
    THEN HeaderLoop(doc, i + 1, url, course, flyers)
    ELSE Accepted(title,
                  TableEvents(doc, find_next_table(doc, i),
                              Context(url, course, title, flyers)),
                  HeaderLoop(doc, i + 1, url, course, flyers))

HeaderLoop(doc, i, url, course, flyers) ==
    IF i > Len(doc) THEN NoEvents
    ELSE IF doc[i].tag # "h2" THEN HeaderLoop(doc, i + 1, url, course, flyers)
    ELSE HeaderAt(doc, i, strip(doc[i].text), url, course, flyers)

\* What requests.get and raise_for_status give for a page: the elements of
\* the document, or the exception raised.
PageOk(doc) == [fetch |-> "ok", doc |-> doc]
PageFailed(exc) == [fetch |-> exc, doc |-> <<>>]

\* scrape_calendar: a failed request is caught (line 175) with nothing
\* appended yet.
scrape_calendar(url, course, page, flyers) ==
    IF page.fetch \in RequestExceptions THEN NoEvents
    ELSE HeaderLoop(page.doc, 1, url, course, flyers)

\* The names bound in the module scraper.py: its imports, its class and its
\* function.
ScraperGlobals ==
    {"requests", "BeautifulSoup", "List", "Dict", "Any", "datetime",
     "extract_pdf_location", "extract_pdf_speaker", "EventScraper", "scrape_events"}

\* The names a function body can read: its locals and the module's globals.
Bound(name, locals) == name \in locals \cup ScraperGlobals

\* Lines 43-50
Entry(href, text) ==
    [course |-> split(href, "-")[2], link |-> Absolute(href), title |-> strip(text)]

\* Lines 36-52: the entries built from the a elements of the landing page
\* whose href contains the marker.
RECURSIVE Caratterizzanti(_)
Caratterizzanti(anchors) ==
    IF anchors = <<>> THEN <<>>
    ELSE (IF Truthy(Head(anchors).href) /\ Contains(Head(anchors).href.value, Marker)
          THEN <<Entry(Head(anchors).href.value, Head(anchors).text)>>
          ELSE <<>>)
         \o Caratterizzanti(Tail(anchors))

LandingOk(anchors) == [fetch |-> "ok", anchors |-> anchors]
LandingFailed(exc) == [fetch |-> exc, anchors |-> <<>>]

\* The try block of scrape_caratterizzanti. Line 33 reads the name url,
\* which is bound neither in the method (its only local is self) nor in the
\* module, so NameError is raised before any request is made.
TryCaratterizzanti(landing) ==
    IF ~Bound("url", {"self"}) THEN Raise("NameError")
    ELSE IF landing.fetch # "ok" THEN Raise(landing.fetch)
    ELSE Return(Caratterizzanti(landing.anchors))

\* The except clause of line 54: requests.RequestException only.
ExceptRequestException(body) ==
    IF body.kind = "raise" /\ body.exc \in RequestExceptions THEN Return(<<>>)
    ELSE body

scrape_caratterizzanti(landing) == ExceptRequestException(TryCaratterizzanti(landing))

Extended(one, rest) ==
    [events |-> one.events \o rest.events,
     subscriptions |-> one.subscriptions \o rest.subscriptions]

\* The loop of scrape over the entries (lines 190-195). site.pages maps a
\* calendar URL to what its request gives, site.flyers a flyer URL likewise.
RECURSIVE ScrapeLoop(_, _)
ScrapeLoop(caratterizzanti, site) ==
    IF caratterizzanti = <<>> THEN NoEvents
    ELSE Extended(scrape_calendar(Head(caratterizzanti).link,
                                  Head(caratterizzanti).course,
                                  site.pages[Head(caratterizzanti).link],
                                  site.flyers),
                  ScrapeLoop(Tail(caratterizzanti), site))

\* Lines 187-196: an exception of scrape_caratterizzanti propagates.
ScrapeFrom(caratterizzanti, site) ==
    IF caratterizzanti.kind = "raise" THEN caratterizzanti
    ELSE Return(ScrapeLoop(caratterizzanti.value, site))

scrape(site) == ScrapeFrom(scrape_caratterizzanti(site.landing), site)

scrape_events(site) == scrape(site)

---------------------------------------------------------------------------
(* server.py: CalDavServer *)

unknown == <<"u", "n", "k", "n", "o", "w", "n">>

\* Index of the first ")" of s at or after position k, 0 when there is none.
RECURSIVE FirstClose(_, _)
FirstClose(s, k) ==
    IF k > Len(s) THEN 0 ELSE IF s[k] = ")" THEN k ELSE FirstClose(s, k + 1)

\* Index of the first non-whitespace character of s at or after position k.
RECURSIVE SkipSpace(_, _)
SkipSpace(s, k) ==
    IF k <= Len(s) /\ IsSpace(s[k]) THEN SkipSpace(s, k + 1) ELSE k

\* re.sub(r'\s*\([^)]*\)', '', s), scanning from position i: at each position
\* the pattern matches iff the whitespace run starting there is followed by
\* "(" and a ")" occurs later; the match ends at the first such ")".
RECURSIVE SubParens(_, _)
SubParens(s, i) ==
    IF i > Len(s) THEN <<>>
    ELSE LET j == SkipSpace(s, i)
             k == IF j <= Len(s) /\ s[j] = "(" THEN FirstClose(s, j + 1) ELSE 0
         IN  IF k > 0 THEN SubParens(s, k + 1)
             ELSE <<s[i]>> \o SubParens(s, i + 1)

HexDigits ==
    <<"0", "1", "2", "3", "4", "5", "6", "7", "8", "9", "A", "B", "C", "D", "E", "F">>

PercentByte(b) == <<"%", HexDigits[(b \div 16) + 1], HexDigits[(b % 16) + 1]>>

\* The UTF-8 bytes of the character with code point n < 2048, percent-encoded.
PercentEncoded(n) ==
    IF n < 128 THEN PercentByte(n)
    ELSE PercentByte(192 + (n \div 64)) \o PercentByte(128 + (n % 64))

\* urllib.parse.quote(c, safe='') on one character: the unreserved
\* characters are kept, every other one is percent-encoded.
QuoteChar(c) ==
    IF c \in Range(Digits) \cup Range(UpperLetters) \cup Range(LowerLetters)
             \cup {"_", ".", "-", "~"}
    THEN <<c>>
    ELSE PercentEncoded(ord(c))

RECURSIVE quote(_)
quote(s) == IF s = <<>> THEN <<>> ELSE QuoteChar(Head(s)) \o quote(Tail(s))

\* The character class written without its hyphen: [^\w\s].
KeptBySlugNoHyphen(c) == IsWord(c) \/ IsSpace(c)

KeptBySlug(c) == IsWord(c) \/ IsSpace(c) \/ c = "-"

\* re.sub(r'[^\w\s-]', '', s)
RECURSIVE SubSpecials(_)
SubSpecials(s) ==
    IF s = <<>> THEN <<>>
    ELSE (IF KeptBySlug(Head(s)) THEN <<Head(s)>> ELSE <<>>) \o SubSpecials(Tail(s))

create_slug(subscription) ==
    LET clean == SubParens(subscription, 1)
        slug  == lower(replace(strip(SubSpecials(clean)), " ", "-"))
    IN  quote(slug)

\* dict.get('subscription', 'unknown')
SubscriptionOf(event) ==
    IF "subscription" \in DOMAIN event THEN event.subscription ELSE unknown

\* The loop of _group_events_by_subscription over the events left, groups
\* being the dict built so far, as a sequence of its items in insertion order.
RECURSIVE GroupLoop(_, _)
GroupLoop(evs, groups) ==
    IF evs = <<>> THEN groups
    ELSE LET event == Head(evs)
             sub   == SubscriptionOf(event)
             g1 == IF \E i \in DOMAIN groups : groups[i].sub = sub THEN groups
                   ELSE Append(groups, [sub |-> sub, events |-> <<>>])
             g2 == [i \in DOMAIN g1 |->
                      IF g1[i].sub = sub
                      THEN [g1[i] EXCEPT !.events = Append(@, event)]
                      ELSE g1[i]]
         IN  GroupLoop(Tail(evs), g2)

group_events_by_subscription(evs) == GroupLoop(evs, <<>>)

Required == {"summary", "dtstart", "dtend"}
Optional == {"description", "location", "url"}

\* The iCal property an event key is written to.
EventKey(prop) ==
    CASE prop = "dtstart" -> "start_date"
      [] prop = "dtend" -> "end_date"
      [] OTHER -> prop

\* The VEVENT built for one event: the optional properties are added only
\* when the event has the key with a non-empty value.
Component(event_data) ==
    [p \in Required \cup
           {o \in Optional : o \in DOMAIN event_data /\ event_data[o] # <<>>}
       |-> event_data[EventKey(p)]]

serve_calendar(evs, name) ==
    [status     |-> 200,
     mimetype   |-> "text/calendar",
     name       |-> name,
     filename   |-> replace(name, " ", "_") \o <<".", "i", "c", "s">>,
     components |-> [i \in DOMAIN evs |-> Component(evs[i])]]

FullCalendarName ==
    <<"I", "A", "N", "U", "A", " ", "F", "u", "l", "l", " ",
      "C", "a", "l", "e", "n", "d", "a", "r">>

SubscriptionName(sub_name) == <<"I", "A", "N", "U", "A", " ">> \o sub_name

NotFoundBody ==
    <<"S", "u", "b", "s", "c", "r", "i", "p", "t", "i", "o", "n", " ",
      "n", "o", "t", " ", "f", "o", "u", "n", "d">>

\* The loop returning 404 from its first iteration when the first label
\* does not match.
FindSubscriptionFirst(groups, slug, i) ==
    IF i > Len(groups) THEN [status |-> 404, body |-> NotFoundBody]
    ELSE IF create_slug(groups[i].sub) = slug
         THEN serve_calendar(groups[i].events, SubscriptionName(groups[i].sub))
         ELSE [status |-> 404, body |-> NotFoundBody]

\* The loop of get_subscription_calendar over the dict items from index i.
RECURSIVE FindSubscription(_, _, _)
FindSubscription(groups, slug, i) ==
    IF i > Len(groups) THEN [status |-> 404, body |-> NotFoundBody]
    ELSE IF create_slug(groups[i].sub) = slug
         THEN serve_calendar(groups[i].events, SubscriptionName(groups[i].sub))
         ELSE FindSubscription(groups, slug, i + 1)

get_subscription_calendar(groups, slug) == FindSubscription(groups, slug, 1)

get_full_calendar(evs) == serve_calendar(evs, FullCalendarName)

\* sorted(): insertion of one label into a sorted sequence of labels.
RECURSIVE InsertSorted(_, _)
InsertSorted(sorted, x) ==
    IF sorted = <<>> THEN <<x>>
    ELSE IF StrLess(x, Head(sorted)) THEN <<x>> \o sorted
    ELSE <<Head(sorted)>> \o InsertSorted(Tail(sorted), x)

RECURSIVE SortedLabels(_)
SortedLabels(labels) ==
    IF labels = <<>> THEN <<>>
    ELSE InsertSorted(SortedLabels(SubSeq(labels, 1, Len(labels) - 1)),
                      labels[Len(labels)])

\* list_calendars: the anchors of the page after the one of the full calendar,
\* one per key of the dict, in sorted order.
list_calendars(groups) ==
    LET keys == SortedLabels([i \in DOMAIN groups |-> groups[i].sub])
    IN  [status   |-> 200,
         mimetype |-> "text/html",
         links    |-> [i \in DOMAIN keys |->
                         [slug |-> create_slug(keys[i]), text |-> keys[i]]]]

CalDavServer(evs) ==
    [events |-> evs, subscription_events |-> group_events_by_subscription(evs)]

---------------------------------------------------------------------------
(* main.py *)

\* The positional parameters, self apart, of the functions main.py calls
\* with two arguments: setup_caldav_server(events) and
\* CalDavServer.update_events(self, events). Neither has a default value.
Parameters == [setup_caldav_server |-> 1, update_events |-> 1]

\* Whether a call of fn with nargs positional arguments binds its
\* parameters; Python raises TypeError otherwise, before the body runs.
Binds(fn, nargs) == nargs = Parameters[fn]

\* update_events run to its end.
update_events(srv, evs) ==
    [events |-> evs, subscription_events |-> group_events_by_subscription(evs)]

\* update_calendar handing the server an empty list when the scrape fails.
update_calendar_empty(srv, sc) ==
    IF sc.kind = "raise"
    THEN [server |-> update_events(srv, <<>>), out |-> "Update failed"]
    ELSE IF ~Binds("update_events", 2) THEN [server |-> srv, out |-> "Update failed"]
    ELSE [server |-> update_events(srv, sc.value.events), out |-> "Updated"]

\* update_calendar(server): sc is what scrape_events() gives. Every
\* exception of the try block is caught and reported.
update_calendar(srv, sc) ==
    IF sc.kind = "raise" THEN [server |-> srv, out |-> "Update failed"]
    ELSE IF ~Binds("update_events", 2) THEN [server |-> srv, out |-> "Update failed"]
    ELSE [server |-> update_events(srv, sc.value.events), out |-> "Updated"]

\* main(): sc is what the initial scrape_events() gives. The call of
\* setup_caldav_server stands outside every try block.
main(sc) ==
    LET failed == sc.kind = "raise"
        evs == IF failed THEN <<>> ELSE sc.value.events
        out == IF failed THEN "Scraping failed" ELSE "Successfully scraped"
    IN  IF ~Binds("setup_caldav_server", 2)
        THEN [pc |-> "TypeError", out |-> out, server |-> CalDavServer(<<>>),
              up |-> FALSE]
        ELSE [pc |-> "serving", out |-> out, server |-> CalDavServer(evs),
              up |-> TRUE]

---------------------------------------------------------------------------
(* Inputs of the server *)

ISB_A == <<"I", "S", "B", " ", "A">>
ISB_A_CL3 == <<"I", "S", "B", " ", "A", " ", "(", "C", "L", "3", ")">>

DateTime(d, h) == [date |-> d, time |-> <<h, 0>>]

\* The events handed to the server: two whose subscription labels differ and
\* have the same slug, and one that has no subscription key.
EventPool ==
    { [summary |-> <<"m", "1">>, subscription |-> ISB_A,
       start_date |-> DateTime(<<2025, 10, 1>>, 9),
       end_date |-> DateTime(<<2025, 10, 1>>, 13),
       description |-> <<"T", "B", "D">>, location |-> <<>>,
       url |-> <<"/", "c">>],
      [summary |-> <<"m", "2">>, subscription |-> ISB_A_CL3,
       start_date |-> DateTime(<<2025, 10, 2>>, 9),
       end_date |-> DateTime(<<2025, 10, 2>>, 13),
       description |-> <<"T", "B", "D">>, location |-> <<"A", "1">>,
       url |-> <<"/", "c">>],
      [summary |-> <<"m", "3">>,
       start_date |-> DateTime(<<2025, 10, 3>>, 9),
       end_date |-> DateTime(<<2025, 10, 3>>, 13)] }

SeqsUpTo(S, n) == UNION {[1..k -> S] : k \in 0..n}

EventLists == SeqsUpTo(EventPool, MaxEvents)

\* The slugs requested: those of the labels in use and one of no label.
RequestedSlugs ==
    {create_slug(l) : l \in {ISB_A, ISB_A_CL3, unknown}} \cup {<<"n", "o">>}

NoRequest == [route |-> "none"]

---------------------------------------------------------------------------
(* Inputs of the scraper *)

ISB == <<"I", "S", "B">>
LMCU == <<"L", "M", "C", "U">>

IsbHref ==
    <<"/", "c", "a", "l", "e", "n", "d", "a", "r", "i", "-", "I", "S", "B", "-", "c",
    "a", "r", "a", "t", "t", "e", "r", "i", "z", "z", "a", "n", "t", "i", "-", "2", "5",
    "-", "2", "6">>

LmcuUrl ==
    <<"h", "t", "t", "p", "s", ":", "/", "/", "i", "a", "n", "u", "a", ".", "u", "n",
    "i", "g", "e", ".", "i", "t", "/", "c", "a", "l", "e", "n", "d", "a", "r", "i", "-",
    "L", "M", "C", "U", "-", "c", "a", "r", "a", "t", "t", "e", "r", "i", "z", "z", "a",
    "n", "t", "i", "-", "2", "5", "-", "2", "6">>

IsbUrl == Absolute(IsbHref)

\* The a elements of the landing page: an absolute and a relative link to a
\* calendar, a link to another page and an a element without href.
LandingAnchors ==
    << [href |-> Some(LmcuUrl), text |-> LMCU],
       [href |-> Some(<<"/", "o", "-", "p">>), text |-> <<"o">>],
       [href |-> None, text |-> <<"x">>],
       [href |-> Some(IsbHref), text |-> <<" ">> \o ISB \o <<" ">>] >>

Landings ==
    {LandingOk(LandingAnchors), LandingOk(<<>>)}
    \cup {LandingFailed(exc) : exc \in RequestExceptions}

F1 == <<"/", "f", "1">>
F2 == <<"h", "t", "t", "p", ":", "/", "/", "x", "/", "f", "2">>
F3 == <<"/", "f", "3">>
F4 == <<"/", "f", "4">>
F5 == <<"/", "f", "5">>

FlyerGood ==
    FlyerPages(<< <<>>,
       <<"C", "O", "R", "S", "O", "\n", "D", "r", " ", "W", "h", "o", "\n", "D", "a", "l",
       "l", "e", " ", "o", "r", "e", " ", "9", " ", "a", "l", "l", "e", " ", "1", "0",
       "\n", "\n", "A", "u", "l", "a", " ", "1", "\n", "\n", "A", "B", "S", "T", "R", "A",
       "C", "T">> >>)

Both(flyer) == [location |-> flyer, speaker |-> flyer]

\* What the downloads of the flyers give: a flyer with a location and a
\* speaker, one whose request fails, one that is no PDF, one without text,
\* and one whose second download times out.
Flyers ==
    [u \in {Absolute(F1), F2, Absolute(F3), Absolute(F4), Absolute(F5)} |->
        CASE u = Absolute(F1) -> Both(FlyerGood)
          [] u = F2 -> Both(FlyerFailed("HTTPError"))
          [] u = Absolute(F3) -> Both(FlyerCorrupt)
          [] u = Absolute(F4) -> Both(FlyerPages(<< <<>> >>))
          [] OTHER -> [location |-> FlyerGood, speaker |-> FlyerFailed("Timeout")]]

Blank == Cell(<<>>, <<>>)
Text(s) == Cell(s, <<>>)

\* A row of nine td elements with the five cells the scraper reads.
Row(data, ora, modulo, resp, dettagli) ==
    <<Text(data), Blank, Text(ora), Blank, Text(modulo), Blank, Text(resp), Blank,
      dettagli>>

D1 == <<"0", "1", "/", "1", "0", "/", "2", "0", "2", "5">>
D2 == <<" ", "2", "/", "1", "0", "/", "2", "0", "2", "5", " ">>
BadDate == <<"3", "1", "/", "0", "2", "/", "2", "0", "2", "5">>
Morning == <<"0", "9", ":", "0", "0", "-", "1", "3", ":", "0", "0">>
Afternoon == <<"1", "4", ":", "0", "0", " ", "-", " ", "1", "6", ":", "3", "0">>
NoDash == <<"0", "9", ":", "0", "0">>

M(n) == <<"M", n>>

\* Rows that differ in the date and time cells: with a date, with a blank
\* date, with a date that is no date, with eight cells, with a time that is
\* no range, with a second date, and with a blank time.
DateRows ==
    { Row(D1, Morning, M("1"), <<>>, Blank),
      Row(<<>>, Afternoon, M("2"), <<>>, Blank),
      Row(BadDate, Morning, M("3"), <<>>, Blank),
      SubSeq(Row(D2, Morning, M("4"), <<>>, Blank), 1, 8),
      Row(D2, NoDash, M("5"), <<>>, Blank),
      Row(D2, Afternoon, M("6"), <<>>, Blank),
      Row(D1, <<" ">>, M("7"), <<>>, Blank) }

\* The details cells: without a element, with one that has no href or an
\* empty one, and with a link to each flyer.
DetailCells ==
    {Blank, Cell(<<"x">>, <<None>>), Cell(<<"x">>, <<Some(<<>>)>>)}
    \cup {Cell(<<"p", "d", "f">>, <<Some(f), Some(F1)>>) : f \in {F1, F2, F3, F4, F5}}

DetailRows ==
    {Row(D1, Morning, M("8"), resp, d) : resp \in {<<>>, <<"R">>}, d \in DetailCells}

HeaderRow == <<Text(<<"D", "a", "t", "a">>)>>

TableOf(rows) == Table(<<HeaderRow>> \o rows)

ISB_B == <<"I", "S", "B", " ", "B">>
LMCU_X == <<"L", "M", "C", "U", " ", "X">>

\* Longest table of DateRows.
MaxRows == 3

\* The calendar pages of the course ISB.
IsbDocs ==
    {<<Heading(ISB_A), TableOf(rows)>> : rows \in SeqsUpTo(DateRows, MaxRows)}
    \cup {<<Heading(ISB_A), TableOf(<<r>>)>> : r \in DetailRows}
    \cup {<<Heading(<<" ">> \o ISB_A), TableOf(r1), Heading(ISB_B), TableOf(r2)>> :
            r1 \in SeqsUpTo(DateRows, 1), r2 \in SeqsUpTo(DateRows, 1)}
    \cup { <<Heading(ISB_A), Heading(ISB_B)>>,
           <<Heading(ISB_A), Heading(ISB_B),
             TableOf(<<Row(D1, Morning, M("1"), <<>>, Blank)>>)>>,
           <<Heading(ISB_A), Heading(LMCU_X), Table(<<>>)>>,
           <<Heading(ISB), Heading(<<>>), TableOf(<<>>), Heading(ISB_B)>> }

LmcuDoc ==
    <<Heading(LMCU_X), TableOf(<<Row(D1, Morning, M("9"), <<"R">>, Blank)>>)>>

\* The sites: every landing page with one pair of calendar pages, and the
\* landing page that lists both calendars with every calendar page of ISB
\* and a calendar page of LMCU that is served or not.
Sites ==
    { [landing |-> l,
       pages |-> [u \in {IsbUrl, LmcuUrl} |->
                    IF u = IsbUrl
                    THEN PageOk(<<Heading(ISB_A),
                                  TableOf(<<Row(D1, Morning, M("1"), <<>>, Blank)>>)>>)
                    ELSE PageOk(LmcuDoc)],
       flyers |-> Flyers] : l \in Landings }
    \cup
    { [landing |-> LandingOk(LandingAnchors),
       pages |-> [u \in {IsbUrl, LmcuUrl} |-> IF u = IsbUrl THEN isb ELSE lmcu],
       flyers |-> Flyers] :
         isb \in {PageOk(d) : d \in IsbDocs} \cup {PageFailed("Timeout")},
         lmcu \in {PageOk(LmcuDoc), PageFailed("HTTPError")} }

\* The calls of scrape_calendar: each calendar page with its course.
CalendarCalls == {<<IsbUrl, ISB>>, <<LmcuUrl, LMCU>>}

NoSite == [landing |-> LandingOk(<<>>)]
NoCall == [fn |-> "none"]
NoReturn == [kind |-> "none"]

---------------------------------------------------------------------------
(* Inputs of _create_slug *)

\* The pieces labels are made of: an upper-case letter, a space, a tab, a
\* hyphen, a letter that is not ASCII in its two cases, a special character,
\* a parenthesized part and an opening parenthesis that is never closed.
LabelPieces ==
    { <<"A">>, <<" ">>, <<"\t">>, <<"-">>, <<"é">>, <<"É">>, <<"!">>,
      <<"(", "x", ")">>, <<"(">> }

RECURSIVE Concat(_)
Concat(pieces) ==
    IF pieces = <<>> THEN <<>> ELSE Head(pieces) \o Concat(Tail(pieces))

Labels == {Concat(p) : p \in SeqsUpTo(LabelPieces, MaxLabel)}

---------------------------------------------------------------------------
(* The server object under concurrent requests and update_events *)

\* update_events, line 108: self.events = events
UpdateEventsAssign ==
    /\ server = "up"
    /\ upd = "idle"
    /\ \E new \in EventLists : events' = new
    /\ upd' = "assigned"
    /\ UNCHANGED <<server, subscription_events, clientVars, mainVars, scraperVars>>

\* update_events, line 109: self.subscription_events = self._group_...()
UpdateEventsGroup ==
    /\ upd = "assigned"
    /\ subscription_events' = group_events_by_subscription(events)
    /\ upd' = "idle"
    /\ UNCHANGED <<server, events, clientVars, mainVars, scraperVars>>

\* GET /calendar.ics
GetFullCalendar ==
    /\ server = "up"
    /\ request' = [route |-> "full"]
    /\ response' = get_full_calendar(events)
    /\ UNCHANGED <<serverVars, mainVars, scraperVars>>

\* GET /calendar/<slug>.ics
GetSubscriptionCalendar(slug) ==
    /\ server = "up"
    /\ request' = [route |-> "subscription", slug |-> slug]
    /\ response' = get_subscription_calendar(subscription_events, slug)
    /\ UNCHANGED <<serverVars, mainVars, scraperVars>>

\* GET /calendars
ListCalendars ==
    /\ server = "up"
    /\ request' = [route |-> "list"]
    /\ response' = list_calendars(subscription_events)
    /\ UNCHANGED <<serverVars, mainVars, scraperVars>>

NoServer ==
    /\ server = "none"
    /\ events = <<>>
    /\ subscription_events = <<>>
    /\ upd = "idle"

NoClient ==
    /\ request = NoRequest
    /\ response = [status |-> 0]

NoMain ==
    /\ mainpc = "start"
    /\ main_out = ""
    /\ job_scrape = NoReturn
    /\ job_out = ""

NoScraper ==
    /\ web = NoSite
    /\ called = NoCall
    /\ returned = NoReturn

\* A server constructed from a list of events: CalDavServer(events).
Init ==
    /\ server = "up"
    /\ \E evs \in EventLists :
         /\ events = CalDavServer(evs).events
         /\ subscription_events = CalDavServer(evs).subscription_events
    /\ upd = "idle"
    /\ NoClient
    /\ NoMain
    /\ NoScraper

Next ==
    \/ UpdateEventsAssign
    \/ UpdateEventsGroup
    \/ GetFullCalendar
    \/ \E slug \in RequestedSlugs : GetSubscriptionCalendar(slug)
    \/ ListCalendars

Spec == Init /\ [][Next]_vars

---------------------------------------------------------------------------
(* The process: main() and the hourly job update_calendar *)

\* The sites main.py scrapes: each landing page, reached or not.
MainSites == {s \in Sites : s.pages[IsbUrl] = PageOk(<<Heading(ISB_A),
                  TableOf(<<Row(D1, Morning, M("1"), <<>>, Blank)>>)>>)}

\* What a call of scrape_events() in main.py gives: what the scraper gives
\* on the site it finds.
ScrapeRuns == {[site |-> s, result |-> scrape_events(s)] : s \in MainSites}

\* main() from its start to server.run or to the exception that ends it.
MainRan(run, r) ==
    /\ web' = run.site
    /\ mainpc' = r.pc
    /\ main_out' = r.out
    /\ server' = IF r.up THEN "up" ELSE server
    /\ events' = IF r.up THEN r.server.events ELSE events
    /\ subscription_events' =
         IF r.up THEN r.server.subscription_events ELSE subscription_events

Main ==
    /\ mainpc = "start"
    /\ server = "none"
    /\ \E run \in ScrapeRuns : MainRan(run, main(run.result))
    /\ UNCHANGED <<upd, job_scrape, job_out, clientVars, called, returned>>

\* setup_caldav_server(events) called with the list alone, as test.py does.
SetupServer ==
    /\ server = "none"
    /\ \E evs \in EventLists :
         /\ events' = CalDavServer(evs).events
         /\ subscription_events' = CalDavServer(evs).subscription_events
    /\ server' = "up"
    /\ UNCHANGED <<upd, clientVars, mainVars, scraperVars>>

\* One run of the job update_calendar(server).
UpdateCalendarRan(run, r) ==
    /\ web' = run.site
    /\ job_scrape' = run.result
    /\ job_out' = r.out
    /\ events' = r.server.events
    /\ subscription_events' = r.server.subscription_events

UpdateCalendar ==
    /\ server = "up"
    /\ upd = "idle"
    /\ \E run \in ScrapeRuns :
         UpdateCalendarRan(run,
             update_calendar([events |-> events,
                              subscription_events |-> subscription_events],
                             run.result))
    /\ UNCHANGED <<server, upd, mainpc, main_out, clientVars, called, returned>>

InitMain == NoServer /\ NoClient /\ NoMain /\ NoScraper

NextMain ==
    \/ Main
    \/ SetupServer
    \/ UpdateCalendar
    \/ GetFullCalendar

SpecMain == InitMain /\ [][NextMain]_vars

---------------------------------------------------------------------------
(* The scraper on a site *)

CallScrapeCaratterizzanti ==
    /\ called' = [fn |-> "scrape_caratterizzanti"]
    /\ returned' = scrape_caratterizzanti(web.landing)
    /\ UNCHANGED <<web, serverVars, clientVars, mainVars>>

CallScrapeCalendar ==
    /\ \E c \in CalendarCalls :
         /\ called' = [fn |-> "scrape_calendar", url |-> c[1], course |-> c[2]]
         /\ returned' = Return(scrape_calendar(c[1], c[2], web.pages[c[1]], web.flyers))
    /\ UNCHANGED <<web, serverVars, clientVars, mainVars>>

CallScrape ==
    /\ called' = [fn |-> "scrape"]
    /\ returned' = scrape(web)
    /\ UNCHANGED <<web, serverVars, clientVars, mainVars>>

InitScrape ==
    /\ web \in Sites
    /\ called = NoCall
    /\ returned = NoReturn
    /\ NoServer
    /\ NoClient
    /\ NoMain

NextScrape ==
    \/ CallScrapeCaratterizzanti
    \/ CallScrapeCalendar
    \/ CallScrape

SpecScrape == InitScrape /\ [][NextScrape]_vars

---------------------------------------------------------------------------
(* _create_slug on a label *)

\* The first call: self._create_slug(sub_name) on a label.
CreateSlug ==
    /\ called = NoCall
    /\ \E label \in Labels :
         /\ called' = [fn |-> "_create_slug", subscription |-> label]
         /\ returned' = Return(create_slug(label))
    /\ UNCHANGED <<web, serverVars, clientVars, mainVars>>

\* self._create_slug applied to the slug the last call returned.
CreateSlugOfSlug ==
    /\ called.fn = "_create_slug"
    /\ called' = [fn |-> "_create_slug", subscription |-> returned.value]
    /\ returned' = Return(create_slug(returned.value))
    /\ UNCHANGED <<web, serverVars, clientVars, mainVars>>

InitSlug == NoServer /\ NoClient /\ NoMain /\ NoScraper

NextSlug ==
    \/ CreateSlug
    \/ CreateSlugOfSlug

SpecSlug == InitSlug /\ [][NextSlug]_vars

---------------------------------------------------------------------------
(* Claims on the server object *)

\* C1. update_events replaces the event set and the grouping atomically with
\* respect to the request handlers: whenever /calendars or
\* /calendar/<slug>.ics is answered, the answer is the one computed from the
\* grouping of the event set that /calendar.ics serves at that moment, so
\* that no sequence of requests sees the new event set with the old grouping.
C1_ReadersSeeOneSnapshot ==
    [][/\ ListCalendars =>
            response' = list_calendars(group_events_by_subscription(events))
       /\ \A slug \in RequestedSlugs :
            GetSubscriptionCalendar(slug) =>
              response' = get_subscription_calendar(
                              group_events_by_subscription(events), slug)]_vars

C7_Labels(groups) == {groups[i].sub : i \in DOMAIN groups}

C7_Ianua(label) ==
    <<"I", "A", "N", "U", "A", " ">> \o label

C7_NotFound ==
    <<"S", "u", "b", "s", "c", "r", "i", "p", "t", "i", "o", "n", " ", "n", "o", "t", " ", "f", "o", "u", "n", "d">>

\* What C7 says of the response resp to GET /calendar/<slug>.ics with the
\* grouping groups.
C7_Answer(groups, slug, resp) ==
    IF \E l \in C7_Labels(groups) : create_slug(l) = slug
    THEN \E l \in C7_Labels(groups) :
           /\ create_slug(l) = slug
           /\ resp.status = 200
           /\ resp.name = C7_Ianua(l)
           /\ \A e \in EventPool :
                Component(e) \in Range(resp.components) => SubscriptionOf(e) = l
    ELSE resp.status = 404 /\ resp.body = C7_NotFound

\* C7. GET /calendar/<slug>.ics: when some label of the current grouping has
\* the requested slug, the response is a calendar named 'IANUA <label>' for
\* such a label, with only events of that label; when no label has it, the
\* response is 404 with the body 'Subscription not found'.
C7_SubscriptionFeed ==
    [][\A slug \in RequestedSlugs :
         GetSubscriptionCalendar(slug) =>
           C7_Answer(subscription_events, slug, response')]_vars

\* C7 witness: with two events of different labels held, a request for the
\* slug of one label was answered with one event only.
C7_Witness ==
    /\ upd = "idle"
    /\ Len(events) = 2
    /\ request.route = "subscription"
    /\ request.slug = <<"u", "n", "k", "n", "o", "w", "n">>
    /\ response.status = 200
    /\ Len(response.components) = 1

---------------------------------------------------------------------------
(* Claims on the listed links and on the grouping *)

C13_HasLabel(label, event) == SubscriptionOf(event) = label

\* The events of evs whose subscription label is label, in order.
RECURSIVE C13_EventsOf(_, _)
C13_EventsOf(evs, label) ==
    IF evs = <<>> THEN <<>>
    ELSE (IF SubscriptionOf(Head(evs)) = label THEN <<Head(evs)>> ELSE <<>>)
         \o C13_EventsOf(Tail(evs), label)

C13_Components(evs) == [i \in DOMAIN evs |-> Component(evs[i])]

\* C13. Every label listed by GET /calendars is reachable through its link:
\* the request for /calendar/<slug>.ics with the slug of the link answers
\* with exactly the events of the event set that have the label of the link,
\* also when two labels have the same slug.
C13_ListedLinkServesItsLabel ==
    [][(ListCalendars /\ upd = "idle") =>
         \A k \in DOMAIN response'.links :
           /\ get_subscription_calendar(subscription_events,
                                        response'.links[k].slug).status = 200
           /\ get_subscription_calendar(subscription_events,
                                        response'.links[k].slug).components
                = C13_Components(C13_EventsOf(events, response'.links[k].text))]_vars

C14_Keys(groups) == [i \in DOMAIN groups |-> groups[i].sub]

\* C14. In every state of the server, the middle of update_events included,
\* the grouping is the grouping of the event set: the groups have distinct
\* labels, none is empty, each holds exactly the events of the event set
\* with its label, in the order of the event set, and every event of the
\* event set is in the group of its label.
C14_GroupingFollowsEvents ==
    server = "up" =>
        /\ \A i, j \in DOMAIN subscription_events :
             subscription_events[i].sub = subscription_events[j].sub => i = j
        /\ \A i \in DOMAIN subscription_events :
             /\ subscription_events[i].events # <<>>
             /\ subscription_events[i].events
                  = C13_EventsOf(events, subscription_events[i].sub)
        /\ \A k \in DOMAIN events :
             SubscriptionOf(events[k]) \in Range(C14_Keys(subscription_events))

---------------------------------------------------------------------------
(* Claims on main() and the refresh job *)

\* C3. A refresh cycle that fails leaves the event set and the grouping of
\* the server as they were: the previous snapshot stays, and is not replaced
\* by an empty one.
C3_FailedCycleKeepsSnapshot ==
    [][(UpdateCalendar /\ job_out' = "Update failed") =>
         (events' = events /\ subscription_events' = subscription_events)]_vars

\* C3 witness: a cycle in which the request for the landing page would fail
\* has failed on a server that holds events.
C3_Witness ==
    /\ job_out = "Update failed"
    /\ job_scrape.kind = "raise"
    /\ web.landing.fetch \in RequestExceptions
    /\ events # <<>>

\* C4. When the initial scrape fails, main builds the server with no events
\* and reaches server.run: the server is up, holding the empty event set.
C4_StartsAfterFailedScrape ==
    (mainpc # "start" /\ main_out = "Scraping failed") =>
        (mainpc = "serving" /\ server = "up")

---------------------------------------------------------------------------
(* Claims on the discovery of the calendars and on scrape *)

\* C5. scrape_caratterizzanti returns the empty list, and raises nothing,
\* whenever the request for the landing page fails (connection error,
\* timeout, status that is not 2xx).
C5_DiscoveryFailureGivesEmptyList ==
    (called.fn = "scrape_caratterizzanti" /\ web.landing.fetch \in RequestExceptions)
        => returned = Return(<<>>)

\* The courses the landing page lists, none when its request fails.
C6_Discovered(landing) ==
    IF landing.fetch = "ok" THEN Caratterizzanti(landing.anchors) ELSE <<>>

\* C6. scrape returns the results of scrape_calendar for the discovered
\* courses, concatenated in discovery order; a course whose page cannot be
\* fetched adds nothing and the later courses are still scraped.
C6_ScrapeConcatenates ==
    called.fn = "scrape" =>
        returned = Return(ScrapeLoop(C6_Discovered(web.landing), web))

---------------------------------------------------------------------------
(* Claims on the rows of a calendar page *)

\* The text of the date, time and module cells of a row.
C8_DateCell(cells) == IF Len(cells) >= 1 THEN strip(cells[1].text) ELSE <<>>
C8_TimeCell(cells) == strip(cells[3].text)
C8_ModuleCell(cells) == strip(cells[5].text)

C8_Last(S) == CHOOSE m \in S : \A k \in S : k <= m

\* The rows before row i whose date cell is not blank, among the rows that
\* have the nine cells a row needs to be read.
C8_Dated(rows, i) ==
    {j \in 1..(i - 1) : Len(rows[j]) >= 9 /\ C8_DateCell(rows[j]) # <<>>}

\* The date C8 gives row i of a table: its own, or with a blank date cell
\* the one of the most recent earlier row whose date cell is not blank.
C8_DateOf(rows, i) ==
    IF C8_DateCell(rows[i]) # <<>> THEN ParseDate(C8_DateCell(rows[i]))
    ELSE IF C8_Dated(rows, i) = {} THEN NoDate
    ELSE ParseDate(C8_DateCell(rows[C8_Last(C8_Dated(rows, i))]))

C8_TimeOk(cells) ==
    /\ C8_TimeCell(cells) # <<>>
    /\ C8_ModuleCell(cells) # <<>>
    /\ ParseRange(C8_TimeCell(cells)) # <<>>

\* Module and date of the events C8 expects from rows i.. of a table.
RECURSIVE C8_TableDates(_, _)
C8_TableDates(rows, i) ==
    IF i > Len(rows) THEN <<>>
    ELSE (IF /\ Len(rows[i]) >= 9
             /\ C8_DateOf(rows, i) # NoDate
             /\ C8_TimeOk(rows[i])
          THEN << <<C8_ModuleCell(rows[i]), C8_DateOf(rows, i)>> >>
          ELSE <<>>)
         \o C8_TableDates(rows, i + 1)

C8_HeadingTaken(doc, i, course) ==
    /\ doc[i].tag = "h2"
    /\ strip(doc[i].text) # <<>>
    /\ startswith(strip(doc[i].text), course \o <<" ">>)
    /\ find_next_table(doc, i) # 0

\* The data rows of the table of each heading of the course, from element
\* i of the page on: one sequence of rows for each such heading.
RECURSIVE C8_Tables(_, _, _)
C8_Tables(doc, i, course) ==
    IF i > Len(doc) THEN <<>>
    ELSE (IF C8_HeadingTaken(doc, i, course)
          THEN <<DataRows(doc[find_next_table(doc, i)])>>
          ELSE <<>>)
         \o C8_Tables(doc, i + 1, course)

RECURSIVE C8_PageDates(_)
C8_PageDates(tables) ==
    IF tables = <<>> THEN <<>>
    ELSE C8_TableDates(Head(tables), 1) \o C8_PageDates(Tail(tables))

C8_EventDates(evs) == [k \in DOMAIN evs |-> <<evs[k].summary, evs[k].start_date.date>>]

\* C8. In each table a row with a blank date cell gets the date of the most
\* recent earlier row of that table whose date cell is not blank, a row with
\* a blank date cell before any dated row is skipped, and no date is carried
\* from one table into the next: the events of a page have the modules and
\* the dates this rule gives.
C8_CarriedDate ==
    called.fn = "scrape_calendar" =>
        C8_EventDates(returned.value.events)
            = C8_PageDates(C8_Tables(web.pages[called.url].doc, 1, called.course))

\* a is b with some of its elements left out.
RECURSIVE C9_IsSubseq(_, _)
C9_IsSubseq(a, b) ==
    IF a = <<>> THEN TRUE
    ELSE IF b = <<>> THEN FALSE
    ELSE IF Head(a) = Head(b) THEN C9_IsSubseq(Tail(a), Tail(b))
    ELSE C9_IsSubseq(a, Tail(b))

\* A row that has all it takes to give an event: nine cells, a date of its
\* own that parses, a module and a time range that parses.
C9_Complete(cells) ==
    /\ Len(cells) >= 9
    /\ C8_DateCell(cells) # <<>>
    /\ ParseDate(C8_DateCell(cells)) # NoDate
    /\ C8_TimeOk(cells)

\* A row that is not skipped for what it holds: nine cells, a date cell that
\* is blank or parses, a module and a time range that parses.
C9_Readable(cells) ==
    /\ Len(cells) >= 9
    /\ (C8_DateCell(cells) = <<>> \/ ParseDate(C8_DateCell(cells)) # NoDate)
    /\ C8_TimeOk(cells)

RECURSIVE C9_Flat(_)
C9_Flat(tables) ==
    IF tables = <<>> THEN <<>> ELSE Head(tables) \o C9_Flat(Tail(tables))

C9_Modules(rows) == [k \in DOMAIN rows |-> C8_ModuleCell(rows[k])]

C9_Summaries(evs) == [k \in DOMAIN evs |-> evs[k].summary]

C9_RemoveAt(s, i) == SubSeq(s, 1, i - 1) \o SubSeq(s, i + 1, Len(s))

\* The page without the row i of its element t, a table.
C9_Without(page, t, i) ==
    PageOk([page.doc EXCEPT ![t] = Table(C9_RemoveAt(page.doc[t].trs, i))])

\* The rows after the first of the tables of the page that have fewer than
\* nine cells.
C9_ShortRows(doc) ==
    {p \in UNION {{<<t, i>> : i \in 2..Len(doc[t].trs)} :
                    t \in {u \in DOMAIN doc : doc[u].tag = "table"}} :
        Len(doc[p[1]].trs[p[2]]) < 9}

C9_PerRow(url, course, page, flyers, result) ==
    /\ C9_IsSubseq(C9_Summaries(result.events),
                   C9_Modules(SelectSeq(C9_Flat(C8_Tables(page.doc, 1, course)),
                                        C9_Readable)))
    /\ C9_IsSubseq(C9_Modules(SelectSeq(C9_Flat(C8_Tables(page.doc, 1, course)),
                                        C9_Complete)),
                   C9_Summaries(result.events))
    /\ \A p \in C9_ShortRows(page.doc) :
         scrape_calendar(url, course, C9_Without(page, p[1], p[2]), flyers) = result

\* C9. Skipping is per row: the events of a page come, in order, from rows
\* with nine cells whose date and time range parse, no row that is complete
\* by itself fails to give its event because other rows were skipped, and
\* the page gives the same events without any of its rows of fewer than
\* nine cells.
C9_SkippingIsPerRow ==
    called.fn = "scrape_calendar" =>
        C9_PerRow(called.url, called.course, web.pages[called.url], web.flyers,
                  returned.value)

\* C9 witness: a table with a dated row, a row of eight cells and a row with
\* a blank date gave the events of the first and the third.
C9_Witness ==
    /\ called.fn = "scrape_calendar"
    /\ called.url = IsbUrl
    /\ web.pages[IsbUrl] = PageOk(<<Heading(ISB_A), TableOf(<<
           Row(D1, Morning, M("1"), <<>>, Blank),
           SubSeq(Row(D2, Morning, M("4"), <<>>, Blank), 1, 8),
           Row(<<>>, Afternoon, M("2"), <<>>, Blank) >>)>>)
    /\ C9_Summaries(returned.value.events) = <<M("1"), M("2")>>

\* The flyer link of a details cell, None without one.
C10_Link(cell) ==
    IF cell.anchors # <<>> /\ ~cell.anchors[1].is_none /\ cell.anchors[1].value # <<>>
    THEN Some(Absolute(cell.anchors[1].value))
    ELSE None

C10_Speaker(link, flyers) ==
    IF link.is_none THEN None ELSE extract_speaker_info(flyers[link.value].speaker)

C10_Location(link, flyers) ==
    IF link.is_none THEN None ELSE extract_location_from_pdf(flyers[link.value].location)

C10_Description(resp, speaker) ==
    IF resp # <<>> /\ ~speaker.is_none
    THEN <<"R", "e", "s", "p", "o", "n", "s", "a", "b", "i", "l", "e", ":", " ">> \o resp \o <<"\n">>
         \o <<"S", "p", "e", "a", "k", "e", "r", ":", " ">> \o speaker.value
    ELSE IF resp # <<>>
    THEN <<"R", "e", "s", "p", "o", "n", "s", "a", "b", "i", "l", "e", ":", " ">> \o resp
    ELSE IF ~speaker.is_none
    THEN <<"S", "p", "e", "a", "k", "e", "r", ":", " ">> \o speaker.value
    ELSE <<"T", "B", "D">>

\* The event e has the description, location and url C10 gives the event of
\* the row cells of the page at url.
C10_Composed(e, cells, url, flyers) ==
    /\ e.summary = C8_ModuleCell(cells)
    /\ e.description = C10_Description(strip(cells[7].text),
                                       C10_Speaker(C10_Link(cells[9]), flyers))
    /\ e.location = (IF C10_Location(C10_Link(cells[9]), flyers).is_none THEN <<>>
                     ELSE C10_Location(C10_Link(cells[9]), flyers).value)
    /\ e.url = (IF C10_Link(cells[9]).is_none THEN url ELSE C10_Link(cells[9]).value)

C10_Events(url, rows, flyers, evs) ==
    /\ \A k \in DOMAIN evs :
         \E i \in DOMAIN rows :
           C9_Readable(rows[i]) /\ C10_Composed(evs[k], rows[i], url, flyers)
    /\ SelectSeq(rows, C9_Readable) = SelectSeq(rows, C9_Complete)
         => Len(evs) = Len(SelectSeq(rows, C9_Complete))

\* C10. Every accepted row gives one event whatever the download of its
\* flyer and the extraction give: each event of a page has the description,
\* the location and the url composed from a row of the page as stated, and a
\* page whose accepted rows all have a date of their own gives as many events
\* as it has such rows.
C10_EventOfAcceptedRow ==
    called.fn = "scrape_calendar" =>
        C10_Events(called.url,
                   C9_Flat(C8_Tables(web.pages[called.url].doc, 1, called.course)),
                   web.flyers, returned.value.events)

\* C10 witness: a row whose flyer could not be downloaded gave an event with
\* the url of the flyer, no location and its Responsabile as description.
C10_Witness ==
    /\ called.fn = "scrape_calendar"
    /\ Len(returned.value.events) = 1
    /\ returned.value.events[1].url = F2
    /\ returned.value.events[1].location = <<>>
    /\ returned.value.events[1].description
         = <<"R", "e", "s", "p", "o", "n", "s", "a", "b", "i", "l", "e", ":", " ", "R">>

---------------------------------------------------------------------------
(* Claims on _create_slug *)

\* s from position i on, without its parenthesized parts and the whitespace
\* on both sides of each.
RECURSIVE C11_WithoutParens(_, _)
C11_WithoutParens(s, i) ==
    IF i > Len(s) THEN <<>>
    ELSE IF /\ SkipSpace(s, i) <= Len(s)
            /\ s[SkipSpace(s, i)] = "("
            /\ FirstClose(s, SkipSpace(s, i) + 1) > 0
    THEN C11_WithoutParens(s, SkipSpace(s, FirstClose(s, SkipSpace(s, i) + 1) + 1))
    ELSE <<s[i]>> \o C11_WithoutParens(s, i + 1)

C11_Kept(c) == IsAlnum(c) \/ IsSpace(c) \/ c = "-"

\* s with each run of whitespace replaced by one hyphen.
RECURSIVE C11_Hyphenated(_)
C11_Hyphenated(s) ==
    IF s = <<>> THEN <<>>
    ELSE IF IsSpace(Head(s))
    THEN <<"-">> \o C11_Hyphenated(SubSeq(s, SkipSpace(s, 1), Len(s)))
    ELSE <<Head(s)>> \o C11_Hyphenated(Tail(s))

\* The slug C11 gives a label.
C11_Slugify(label) ==
    quote(lower(C11_Hyphenated(strip(SelectSeq(C11_WithoutParens(label, 1), C11_Kept)))))

\* C11. The slug of a label is the label without its parenthesized parts and
\* the whitespace around them, without the characters that are not
\* alphanumeric, whitespace or hyphen, trimmed, with each run of whitespace
\* replaced by one hyphen, in lower case and percent-encoded.
C11_SlugIsAsDescribed ==
    called.fn = "_create_slug" => returned = Return(C11_Slugify(called.subscription))

\* C12. _create_slug is idempotent on every label: applied to the slug of a
\* label it returns that slug.
C12_Idempotent ==
    [][CreateSlugOfSlug => returned' = returned]_vars

\* C12 as amended. _create_slug is idempotent on every label whose slug has
\* no percent-encoded character: applied to such a slug it returns it.
C12_IdempotentWithoutPercent ==
    [][(CreateSlugOfSlug /\ "%" \notin Range(returned.value))
          => returned' = returned]_vars

\* C12 witness: _create_slug was applied to the slug a-a of a label and
\* returned it.
C12_Witness ==
    /\ called.fn = "_create_slug"
    /\ called.subscription = <<"a", "-", "a">>
    /\ returned = Return(<<"a", "-", "a">>)

---------------------------------------------------------------------------
(* Claims on the headings and tables of a page *)

C15_Taken(doc, i, course) ==
    /\ doc[i].tag = "h2"
    /\ strip(doc[i].text) # <<>>
    /\ startswith(strip(doc[i].text), course \o <<" ">>)

\* The table of the heading at element i: the first table after it when no
\* heading of the course stands between the two, 0 otherwise.
C15_TableOf(doc, i, course) ==
    IF /\ find_next_table(doc, i) # 0
       /\ \A j \in (i + 1)..(find_next_table(doc, i) - 1) : ~C15_Taken(doc, j, course)
    THEN find_next_table(doc, i)
    ELSE 0

\* Subscription and module of the events of a page from element i on, each
\* table giving events to the closest heading of the course before it only.
RECURSIVE C15_Attributed(_, _, _, _, _)
C15_Attributed(doc, i, url, course, flyers) ==
    IF i > Len(doc) THEN <<>>
    ELSE (IF C15_Taken(doc, i, course) /\ C15_TableOf(doc, i, course) # 0
          THEN RowLoop(DataRows(doc[C15_TableOf(doc, i, course)]), NoDate,
                       Context(url, course, strip(doc[i].text), flyers))
          ELSE <<>>)
         \o C15_Attributed(doc, i + 1, url, course, flyers)

\* C15. No table is attributed to more than one subscription: the rows of a
\* table give events under the heading of the course that most closely
\* precedes it and under no other, and a heading of the course with no table
\* before the next one gives no events.
C15_OneSubscriptionPerTable ==
    called.fn = "scrape_calendar" =>
        returned.value.events
            = C15_Attributed(web.pages[called.url].doc, 1, called.url, called.course,
                             web.flyers)

====
